---- MODULE Spec2Model ----
(***************************************************************************)
(* Motion control of the H-Bot gantry firmware (ESP32 motor controller):   *)
(* the control loop, the UART command interpreter, the step scheduler      *)
(* stepMotors, and the homing routine homeGantry.                          *)
(*                                                                         *)
(* Scaling.  The firmware works with 80 steps/mm on a 400 mm x 400 mm      *)
(* board, a 32-bit microsecond clock and step delays of hundreds of        *)
(* microseconds.  The model keeps every formula of the code and scales     *)
(* these magnitudes down (STEPS_PER_MM, MAX_X_MM, MAX_Y_MM, DEFAULT_SPEED, *)
(* MICROS_PER_SEC, ClockMod) so that the reachable states can be           *)
(* enumerated.  BACKOFF_STEPS keeps its value.                             *)
(*                                                                         *)
(* Millimetre values (the floats of the code) are represented exactly as   *)
(* integers counting 1/Unit mm, Unit == InRes * STEPS_PER_MM: a command    *)
(* carries coordinates that are multiples of 1/InRes mm and a position is  *)
(* a multiple of 1/STEPS_PER_MM mm.  Float rounding is not modelled.       *)
(***************************************************************************)
EXTENDS Integers, Sequences, FiniteSets, TLC

VARIABLES
    currentStepsX, currentStepsY,   \* long currentStepsX, currentStepsY
    currentPosX, currentPosY,       \* float currentPosX, currentPosY (1/Unit mm)
    targetStepsX, targetStepsY,     \* long targetStepsX, targetStepsY
    isMoving, isHomed,              \* bool isMoving, isHomed
    currentSpeed, stepDelay,        \* float currentSpeed; unsigned long stepDelay
    lastStepTime,                   \* unsigned long lastStepTime
    now,                            \* the value micros() returns
    hpc,                            \* where the program is: "loop", or inside homeGantry
    act,                            \* the step taken last
    out,                            \* the messages the last step wrote to Serial1
    pulseA, pulseB,                 \* signed number of step pulses of the last step
    magnetStates,                   \* bool magnetStates[4]
    fanPwm,                         \* the duty ledcWrite set on each fan channel
    rx,                             \* lines received on Serial1 that loop() has not read
    sinceStep,                      \* history: time since lastStepTime was set (saturating)
    netA, netB,                     \* history: signed pulse counts since the last zero-reset
    \* the sensor controller (ESP32-Sensor)
    sensorState, lastSensorState,   \* bool sensorState[8][8], lastSensorState[8][8]
    lastScanTime,                   \* unsigned long lastScanTime
    buttonStates, lastButtonStates, \* bool buttonStates[6], lastButtonStates[6]
    lastButtonPress,                \* unsigned long lastButtonPress[6]
    encoderPosition,                \* volatile int encoder1Position, encoder2Position
    lastEncoderPosition,            \* int lastEncoder1Position, lastEncoder2Position
    encLastA,                       \* static int lastA of encoder1ISR, encoder2ISR
    millis,                         \* the value millis() returns
    spc,                            \* where the sensor controller's loop() is
    sact,                           \* the sensor controller's last step
    sout,                           \* the messages that step wrote to Serial1
    btnEvent,                       \* history: the last event sent for each button
    encReported                     \* history: the sum of the deltas sent for each encoder

prog == <<currentStepsX, currentStepsY, currentPosX, currentPosY, targetStepsX,
          targetStepsY, isMoving, isHomed, currentSpeed, stepDelay, lastStepTime,
          now, hpc, act, out, pulseA, pulseB>>

periph == <<magnetStates, fanPwm>>

\* the motor controller, with its history
motorCtl == <<prog, periph, rx, sinceStep, netA, netB>>

\* the sensor controller, with its history
sensorCtl == <<sensorState, lastSensorState, lastScanTime, buttonStates,
               lastButtonStates, lastButtonPress, encoderPosition,
               lastEncoderPosition, encLastA, millis, spc, sact, sout, btnEvent,
               encReported>>

vars == <<motorCtl, sensorCtl>>

----------------------------------------------------------------------------
(* Configuration *)

STEPS_PER_MM == 2       \* #define STEPS_PER_MM 80 (scaled)

MAX_X_MM == 1           \* #define MAX_X_MM 400.0 (scaled)

MAX_Y_MM == 1           \* #define MAX_Y_MM 400.0 (scaled)

DEFAULT_SPEED == 1      \* #define DEFAULT_SPEED 2000 (scaled)

MAX_SPEED == 2          \* #define MAX_SPEED 8000 (scaled)

MICROS_PER_SEC == 2     \* the literal 1000000 of stepDelay (scaled)

BACKOFF_STEPS == 100    \* for (int i = 0; i < 100; i++)

InRes == 4              \* coordinates of a command are multiples of 1/InRes mm

MaxSeek == 2            \* most seek pulses before the limit switch triggers

MaxDt == 2              \* SpecClock: most microseconds one AdvanceTime step adds

MaxNet == 3             \* SpecPulses: range of the pulse counts followed

\* micros() and unsigned long wrap at 2^32, above every delay of a positive
\* whole speed (scaled: twice the longest such delay)
ClockMod == 2 * MICROS_PER_SEC

Unit == InRes * STEPS_PER_MM

----------------------------------------------------------------------------
(* Arithmetic of the code *)

\* (long) of a float n/d: truncation toward zero
Trunc(n, d) == IF n >= 0 THEN n \div d ELSE -((-n) \div d)

\* constrain without its upper bound
ConstrainLowOnly(amt, low, high) == IF amt < low THEN low ELSE amt

\* Arduino constrain(amt, low, high)
Constrain(amt, low, high) == IF amt < low THEN low ELSE IF amt > high THEN high ELSE amt

\* the float value of a command coordinate h/InRes mm
MmOfInput(h) == h * STEPS_PER_MM

\* steps / STEPS_PER_MM as a division of integers, without the cast
MmOfStepsWhole(s) == Trunc(s, STEPS_PER_MM) * Unit

\* (float)steps / STEPS_PER_MM
MmOfSteps(s) == s * InRes

\* (long)(mm * STEPS_PER_MM)
StepsOfMm(u) == Trunc(u * STEPS_PER_MM, Unit)

\* the subtraction without the wrap of unsigned long
ElapsedSinceSigned(currentTime, last) == currentTime - last

\* unsigned long subtraction currentTime - lastStepTime
ElapsedSince(currentTime, last) == (currentTime - last) % ClockMod

\* the delay gate left out
DelayElapsedAlways(currentTime, last, delay) == TRUE

\* currentTime - lastStepTime >= stepDelay
DelayElapsed(currentTime, last, delay) == ElapsedSince(currentTime, last) >= delay

\* stepDelay = 1000000 / currentSpeed: the outcomes of the float division
\* converted to unsigned long.  A speed of 0 divides by zero (inf) and a
\* negative speed gives a negative quotient; converting either to unsigned
\* long is undefined, and the build saturates to one end of the range.
DelayOfSpeed(speed) ==
    IF speed > 0 THEN {MICROS_PER_SEC \div speed} ELSE {0, ClockMod - 1}

\* H-Bot transform of the remaining distance
StepsA(remainingX, remainingY) == remainingX + remainingY

\* motor B given the sum, as motor A
StepsBSum(remainingX, remainingY) == remainingX + remainingY

StepsB(remainingX, remainingY) == remainingX - remainingY

\* digitalWrite(DIR_PIN, steps > 0 ? HIGH : LOW): the sign of a pulse
DirOf(steps) == IF steps > 0 THEN 1 ELSE -1

----------------------------------------------------------------------------
(* Messages *)

StatusMsg(status) == [type |-> "status", status |-> status]

PositionMsg == [type |-> "position", x |-> currentPosX, y |-> currentPosY,
                homed |-> isHomed]

----------------------------------------------------------------------------
(* Inputs *)

\* x of move_absolute, in 1/InRes mm: below 0, a fraction of a step, inside, the
\* far edge, beyond the far edge
XIn == {-1, 1, 2, MAX_X_MM * InRes, (MAX_X_MM + 1) * InRes}

YIn == {0, 2, MAX_Y_MM * InRes + 1}

\* dx, dy of move_relative, in 1/InRes mm
DIn == {-2, 0, 1, 2}

\* the speed key of move_absolute: faster than the default
SpeedIn == {DEFAULT_SPEED + 1}

\* the timing environment: one target; a speed of zero and a faster one
XClock == {MAX_X_MM * InRes}

YClock == {0}

SpeedClock == {0, DEFAULT_SPEED + 1}

\* what the clock advances by between two steps: the longest delay of a
\* positive whole speed
DtIn == {MICROS_PER_SEC}

\* the timing environment: every advance up to MaxDt
DtClock == 1 .. MaxDt

\* the command environment: one target, one relative distance, and the
\* speeds a host may send: negative, zero, above MAX_SPEED
DCmds == {2}

SpeedAny == {-1, 0, MAX_SPEED + 1}

\* the "magnet" key of magnet_on and magnet_off: 1-based, in and out of range
MagnetIn == {0, 1, 5}

\* the "fan" key (1-based) and the "speed" key of set_fan
FanIn == {0, 1, 5}

PwmIn == {-1, 300}

\* readings of the limit switch at successive polls; TRUE is HIGH (not triggered)
SwitchReads == [1 .. (MaxSeek + 1) -> BOOLEAN]

----------------------------------------------------------------------------
(* What a step leaves behind for the observer: its name, the numbers the     *)
(* command carried, and whether it found a move in progress short of its     *)
(* target                                                                    *)

Busy == isMoving /\ (targetStepsX # currentStepsX \/ targetStepsY # currentStepsY)

Act(name, args, busy) == [name |-> name, args |-> args, busy |-> busy]

NoPulse == pulseA' = 0 /\ pulseB' = 0

Min(a, b) == IF a < b THEN a ELSE b

Abs(a) == IF a < 0 THEN -a ELSE a

----------------------------------------------------------------------------
(* The sensor controller (ESP32-Sensor): configuration and state.  The board *)
(* of 8 x 8 squares, the six buttons and the millisecond intervals are       *)
(* scaled down; the two encoders are kept.                                   *)

BOARD_SIZE == 2             \* #define BOARD_SIZE 8 (scaled)

SCAN_INTERVAL_MS == 2       \* #define SCAN_INTERVAL_MS 100 (scaled)

BUTTON_DEBOUNCE_MS == 1     \* #define BUTTON_DEBOUNCE_MS 50 (scaled)

NUM_BUTTONS == 1            \* bool buttonStates[6] (scaled)

NUM_ENCODERS == 2           \* encoder1Position, encoder2Position

MaxEnc == 1                 \* SpecEncoder: range of the encoder counts followed

MaxPieces == 2              \* SpecScan: pieces on the board at a time

MaxElapsed == 4             \* how long after setup() the controller is followed

\* setup() takes at least the delay(200) of setupLEDs: twice the scan interval
BOOT_DELAY_MS == 2 * SCAN_INTERVAL_MS

\* <<rank, file>>
Squares == (0 .. (BOARD_SIZE - 1)) \X (0 .. (BOARD_SIZE - 1))

Buttons == 0 .. (NUM_BUTTONS - 1)

Encoders == 1 .. NUM_ENCODERS

\* int muxIndex = rank / 2
MuxIndex(rank) == rank \div 2

\* int channel = (rank % 2) * 8 + file
Channel(rank, file) == (rank % 2) * BOARD_SIZE + file

\* the multiplexer outputs the scan selects: <<muxIndex, channel>>
MuxChannels == {<<MuxIndex(sq[1]), Channel(sq[1], sq[2])>> : sq \in Squares}

\* the levels of the Hall sensors behind the multiplexers
Pins == [MuxChannels -> {0, 1}]

\* the levels with at most MaxPieces squares occupied (a sensor reads LOW
\* over a piece)
PinsFew ==
    {pins \in Pins : Cardinality({mc \in MuxChannels : pins[mc] = 0}) <= MaxPieces}

\* no piece on the board: every sensor reads HIGH
PinsHigh == {[mc \in MuxChannels |-> 1]}

\* the buttons as read and inverted: TRUE is pressed
RawButtons == [Buttons -> BOOLEAN]

RawReleased == {[i \in Buttons |-> FALSE]}

\* the lines the host may have sent by the time loop() reads Serial1
SensorCmds == {"none", "scan_sensors", "other"}

SAct(name, arg) == [name |-> name, arg |-> arg]

SensorInit ==
    /\ sensorState = [sq \in Squares |-> FALSE]
    /\ lastSensorState = [sq \in Squares |-> FALSE]
    /\ lastScanTime = 0
    /\ buttonStates = [i \in Buttons |-> FALSE]
    /\ lastButtonStates = [i \in Buttons |-> FALSE]
    /\ lastButtonPress = [i \in Buttons |-> 0]
    /\ encoderPosition = [e \in Encoders |-> 0]
    /\ lastEncoderPosition = [e \in Encoders |-> 0]
    /\ encLastA = [e \in Encoders |-> 1]
    /\ millis = BOOT_DELAY_MS
    /\ spc = <<"scan", 0>>
    /\ sact = SAct("boot", 0)
    /\ sout = <<[type |-> "status", status |-> "ready", controller |-> "sensor"]>>
    /\ btnEvent = [i \in Buttons |-> "none"]
    /\ encReported = [e \in Encoders |-> 0]

----------------------------------------------------------------------------
Init ==
    /\ currentStepsX = 0 /\ currentStepsY = 0
    /\ currentPosX = 0 /\ currentPosY = 0
    /\ targetStepsX = 0 /\ targetStepsY = 0
    /\ isMoving = FALSE /\ isHomed = FALSE
    /\ currentSpeed = DEFAULT_SPEED
    /\ stepDelay = MICROS_PER_SEC \div DEFAULT_SPEED
    /\ lastStepTime = 0
    /\ now = 0
    /\ hpc = "loop"
    /\ act = Act("boot", <<>>, FALSE)
    /\ out = <<StatusMsg("ready")>>
    /\ pulseA = 0 /\ pulseB = 0
    /\ magnetStates = [i \in 0 .. 3 |-> FALSE]
    /\ fanPwm = [i \in 0 .. 3 |-> 128]
    /\ rx = <<>>
    /\ sinceStep = 0
    /\ netA = 0 /\ netB = 0
    /\ SensorInit

----------------------------------------------------------------------------
(* moveToAbsolute, moveRelative *)

\* the homed check left out
MoveAllowedAlways == TRUE

\* if (!isHomed) { sendStatus("error", ...); return; }
MoveAllowed == isHomed

MoveToAbsolute(targetX, targetY) ==
    IF ~MoveAllowed
    THEN /\ out' = <<StatusMsg("error")>>
         /\ UNCHANGED <<targetStepsX, targetStepsY, isMoving>>
    ELSE /\ targetStepsX' = StepsOfMm(Constrain(targetX, 0, MAX_X_MM * Unit))
         /\ targetStepsY' = StepsOfMm(Constrain(targetY, 0, MAX_Y_MM * Unit))
         /\ isMoving' = TRUE
         /\ out' = <<>>

\* the delta added to the pending target
MoveRelativeFromTarget(deltaX, deltaY) ==
    MoveToAbsolute(MmOfSteps(targetStepsX) + deltaX, MmOfSteps(targetStepsY) + deltaY)

MoveRelative(deltaX, deltaY) ==
    MoveToAbsolute(currentPosX + deltaX, currentPosY + deltaY)

----------------------------------------------------------------------------
(* stepMotors *)

\* if (remainingX == 0 && remainingY == 0)
ReachedTarget(remainingX, remainingY) == remainingX = 0 /\ remainingY = 0

\* if (stepsA != 0) { currentStepsX += (stepsA > 0) ? 1 : -1; }
NextStepsX(stepsA, stepsB, remainingY) ==
    IF stepsA # 0 THEN currentStepsX + (IF stepsA > 0 THEN 1 ELSE -1)
    ELSE currentStepsX

\* if (stepsB != 0) { the update of currentStepsY }
NextStepsY(stepsA, stepsB, remainingY) ==
    IF stepsB # 0
    THEN IF stepsA = 0
         THEN currentStepsY + (IF stepsB > 0 THEN -1 ELSE 1)
         ELSE currentStepsY + (IF remainingY > 0 THEN 1 ELSE -1)
    ELSE currentStepsY

\* stepMotors(), with currentTime the value micros() returns in it
StepMotors(currentTime) ==
    LET remainingX == targetStepsX - currentStepsX
        remainingY == targetStepsY - currentStepsY
        stepsA == StepsA(remainingX, remainingY)
        stepsB == StepsB(remainingX, remainingY)
    IN  IF ReachedTarget(remainingX, remainingY)
        THEN /\ isMoving' = FALSE
             /\ out' = <<PositionMsg>>
             /\ NoPulse
             /\ UNCHANGED <<currentStepsX, currentStepsY, currentPosX, currentPosY,
                            lastStepTime>>
        ELSE IF DelayElapsed(currentTime, lastStepTime, stepDelay)
        THEN /\ pulseA' = (IF stepsA # 0 THEN DirOf(stepsA) ELSE 0)
             /\ pulseB' = (IF stepsB # 0 THEN DirOf(stepsB) ELSE 0)
             /\ currentStepsX' = NextStepsX(stepsA, stepsB, remainingY)
             /\ currentStepsY' = NextStepsY(stepsA, stepsB, remainingY)
             /\ currentPosX' = MmOfSteps(currentStepsX')
             /\ currentPosY' = MmOfSteps(currentStepsY')
             /\ lastStepTime' = currentTime
             /\ out' = <<>>
             /\ UNCHANGED isMoving
        ELSE /\ NoPulse
             /\ out' = <<>>
             /\ UNCHANGED <<currentStepsX, currentStepsY, currentPosX, currentPosY,
                            lastStepTime, isMoving>>

\* stepMotors called on every iteration of the loop
LoopGuardAlways == TRUE

\* loop(): if (isMoving) { stepMotors(); }
LoopGuard == isMoving

LoopTick ==
    /\ hpc = "loop"
    /\ UNCHANGED <<periph, sensorCtl>>
    /\ LoopGuard
    /\ StepMotors(now)
    /\ act' = Act("tick", <<>>, FALSE)
    /\ UNCHANGED <<targetStepsX, targetStepsY, isHomed, currentSpeed, stepDelay,
                   now, hpc>>

----------------------------------------------------------------------------
(* processUARTCommand: one action per command of a complete line *)

CmdMoveAbsolute(xs, ys, ss) ==
    /\ hpc = "loop"
    /\ UNCHANGED <<periph, sensorCtl>>
    /\ \E x \in xs, y \in ys :
         \/ /\ UNCHANGED <<currentSpeed, stepDelay>>
            /\ MoveToAbsolute(MmOfInput(x), MmOfInput(y))
            /\ act' = Act("move_absolute", <<x, y>>, Busy)
         \/ \E s \in ss :
            /\ currentSpeed' = s
            /\ stepDelay' \in DelayOfSpeed(s)
            /\ MoveToAbsolute(MmOfInput(x), MmOfInput(y))
            /\ act' = Act("move_absolute", <<x, y, s>>, Busy)
    /\ NoPulse
    /\ UNCHANGED <<currentStepsX, currentStepsY, currentPosX, currentPosY, isHomed,
                   lastStepTime, now, hpc>>

CmdMoveRelative(ds) ==
    /\ hpc = "loop"
    /\ UNCHANGED <<periph, sensorCtl>>
    /\ \E dx \in ds, dy \in ds :
         /\ MoveRelative(MmOfInput(dx), MmOfInput(dy))
         /\ act' = Act("move_relative", <<dx, dy>>, Busy)
    /\ NoPulse
    /\ UNCHANGED <<currentStepsX, currentStepsY, currentPosX, currentPosY, isHomed,
                   currentSpeed, stepDelay, lastStepTime, now, hpc>>

\* stop that clears the flag and keeps the target
CmdStopKeepsTarget ==
    /\ hpc = "loop"
    /\ UNCHANGED <<periph, sensorCtl>>
    /\ isMoving' = FALSE
    /\ out' = <<StatusMsg("stopped")>>
    /\ act' = Act("stop", <<>>, Busy)
    /\ NoPulse
    /\ UNCHANGED <<currentStepsX, currentStepsY, currentPosX, currentPosY, isHomed,
                   targetStepsX, targetStepsY, currentSpeed, stepDelay, lastStepTime,
                   now, hpc>>

\* stop that cancels the target and leaves the flag
CmdStopKeepsMoving ==
    /\ hpc = "loop"
    /\ UNCHANGED <<periph, sensorCtl>>
    /\ targetStepsX' = currentStepsX
    /\ targetStepsY' = currentStepsY
    /\ out' = <<StatusMsg("stopped")>>
    /\ act' = Act("stop", <<>>, Busy)
    /\ NoPulse
    /\ UNCHANGED <<currentStepsX, currentStepsY, currentPosX, currentPosY, isHomed,
                   isMoving, currentSpeed, stepDelay, lastStepTime, now, hpc>>

CmdStop ==
    /\ hpc = "loop"
    /\ UNCHANGED <<periph, sensorCtl>>
    /\ isMoving' = FALSE
    /\ targetStepsX' = currentStepsX
    /\ targetStepsY' = currentStepsY
    /\ out' = <<StatusMsg("stopped")>>
    /\ act' = Act("stop", <<>>, Busy)
    /\ NoPulse
    /\ UNCHANGED <<currentStepsX, currentStepsY, currentPosX, currentPosY, isHomed,
                   currentSpeed, stepDelay, lastStepTime, now, hpc>>

\* get_position that reports the target
CmdGetPositionOfTarget ==
    /\ hpc = "loop"
    /\ UNCHANGED <<periph, sensorCtl>>
    /\ out' = <<[type |-> "position", x |-> MmOfSteps(targetStepsX),
                 y |-> MmOfSteps(targetStepsY), homed |-> isHomed]>>
    /\ act' = Act("get_position", <<>>, Busy)
    /\ NoPulse
    /\ UNCHANGED <<currentStepsX, currentStepsY, currentPosX, currentPosY,
                   targetStepsX, targetStepsY, isMoving, isHomed, currentSpeed,
                   stepDelay, lastStepTime, now, hpc>>

CmdGetPosition ==
    /\ hpc = "loop"
    /\ UNCHANGED <<periph, sensorCtl>>
    /\ out' = <<PositionMsg>>
    /\ act' = Act("get_position", <<>>, Busy)
    /\ NoPulse
    /\ UNCHANGED <<currentStepsX, currentStepsY, currentPosX, currentPosY,
                   targetStepsX, targetStepsY, isMoving, isHomed, currentSpeed,
                   stepDelay, lastStepTime, now, hpc>>

\* a bad line answered with an error status
CmdIgnoredReports ==
    /\ hpc = "loop"
    /\ UNCHANGED <<periph, sensorCtl>>
    /\ out' = <<StatusMsg("error")>>
    /\ act' = Act("ignored", <<>>, Busy)
    /\ NoPulse
    /\ UNCHANGED <<currentStepsX, currentStepsY, currentPosX, currentPosY,
                   targetStepsX, targetStepsY, isMoving, isHomed, currentSpeed,
                   stepDelay, lastStepTime, now, hpc>>

\* a line that does not parse, has no "cmd", or names an unknown command
CmdIgnored ==
    /\ hpc = "loop"
    /\ UNCHANGED <<periph, sensorCtl>>
    /\ out' = <<>>
    /\ act' = Act("ignored", <<>>, Busy)
    /\ NoPulse
    /\ UNCHANGED <<currentStepsX, currentStepsY, currentPosX, currentPosY,
                   targetStepsX, targetStepsY, isMoving, isHomed, currentSpeed,
                   stepDelay, lastStepTime, now, hpc>>

----------------------------------------------------------------------------
(* Electromagnets and fans *)

\* setMagnet(magnetIndex, state)
SetMagnet(ms, magnetIndex, state) ==
    IF magnetIndex < 0 \/ magnetIndex >= 4 THEN ms
    ELSE [ms EXCEPT ![magnetIndex] = state]

RECURSIVE SetAllMagnetsFrom(_, _, _)
\* setAllMagnets(state): for (int i = 0; i < 4; i++) setMagnet(i, state)
SetAllMagnetsFrom(ms, i, state) ==
    IF i < 4 THEN SetAllMagnetsFrom(SetMagnet(ms, i, state), i + 1, state) ELSE ms

SetAllMagnets(ms, state) == SetAllMagnetsFrom(ms, 0, state)

\* setFanSpeed(fanIndex, pwmValue)
SetFanSpeed(fp, fanIndex, pwmValue) ==
    IF fanIndex < 0 \/ fanIndex >= 4 THEN fp
    ELSE [fp EXCEPT ![fanIndex] = Constrain(pwmValue, 0, 255)]

\* magnet_on (state TRUE) and magnet_off (state FALSE), with and without the
\* "magnet" key
CmdMagnet(magnets) ==
    /\ hpc = "loop"
    /\ \E state \in BOOLEAN :
         \/ /\ magnetStates' = SetAllMagnets(magnetStates, state)
            /\ act' = Act(IF state THEN "magnet_on" ELSE "magnet_off", <<>>, Busy)
         \/ \E magnet \in magnets :
            /\ magnetStates' = SetMagnet(magnetStates, magnet - 1, state)
            /\ act' = Act(IF state THEN "magnet_on" ELSE "magnet_off", <<magnet>>, Busy)
    /\ out' = <<>>
    /\ NoPulse
    /\ UNCHANGED <<currentStepsX, currentStepsY, currentPosX, currentPosY,
                   targetStepsX, targetStepsY, isMoving, isHomed, currentSpeed,
                   stepDelay, lastStepTime, now, hpc, fanPwm, sensorCtl>>

\* set_fan: int fan = cmd["fan"] | 1; int speed = cmd["speed"] | 128
CmdSetFan(fans, pwms) ==
    /\ hpc = "loop"
    /\ \E fan \in fans, speed \in pwms :
         /\ fanPwm' = SetFanSpeed(fanPwm, fan - 1, speed)
         /\ act' = Act("set_fan", <<fan, speed>>, Busy)
    /\ out' = <<>>
    /\ NoPulse
    /\ UNCHANGED <<currentStepsX, currentStepsY, currentPosX, currentPosY,
                   targetStepsX, targetStepsY, isMoving, isHomed, currentSpeed,
                   stepDelay, lastStepTime, now, hpc, magnetStates, sensorCtl>>

----------------------------------------------------------------------------
(* homeGantry: the handler blocks the loop until it returns.  Its two loops  *)
(* are steps of their own, so that the states inside the handler exist.      *)

RECURSIVE SeekCount(_, _)
\* while (digitalRead(LIMIT_SWITCH_PIN) == HIGH) { pulse both motors }
SeekCount(reads, i) ==
    IF i <= Len(reads) /\ reads[i] THEN 1 + SeekCount(reads, i + 1) ELSE 0

\* the back-off loop with i <= 100
BackoffCountInclusive(i) ==
    Cardinality({k \in i .. BACKOFF_STEPS : k <= BACKOFF_STEPS})

\* for (int i = 0; i < 100; i++) { pulse both motors }: one pulse for every
\* value the loop variable takes from i on while i < 100 holds
BackoffCount(i) == Cardinality({k \in i .. BACKOFF_STEPS : k < BACKOFF_STEPS})

\* the seek loop is left only when some poll reads LOW
Triggers(reads) == \E i \in 1 .. Len(reads) : ~reads[i]

\* the number of polls that read HIGH before the first that reads LOW
HighBefore(reads) ==
    Cardinality({i \in 1 .. Len(reads) : \A j \in 1 .. i : reads[j]})

\* home that does not clear isHomed
CmdHomeKeepsHomed ==
    /\ hpc = "loop"
    /\ UNCHANGED <<periph, sensorCtl>>
    /\ hpc' = "seek"
    /\ out' = <<>>
    /\ act' = Act("home", <<>>, Busy)
    /\ NoPulse
    /\ UNCHANGED <<currentStepsX, currentStepsY, currentPosX, currentPosY,
                   targetStepsX, targetStepsY, isMoving, isHomed, currentSpeed,
                   stepDelay, lastStepTime, now>>

CmdHome ==
    /\ hpc = "loop"
    /\ UNCHANGED <<periph, sensorCtl>>
    /\ isHomed' = FALSE
    /\ hpc' = "seek"
    /\ out' = <<>>
    /\ act' = Act("home", <<>>, Busy)
    /\ NoPulse
    /\ UNCHANGED <<currentStepsX, currentStepsY, currentPosX, currentPosY,
                   targetStepsX, targetStepsY, isMoving, currentSpeed, stepDelay,
                   lastStepTime, now>>

\* direction LOW on both motors, one pulse on both per poll that reads HIGH
HomeSeek ==
    /\ hpc = "seek"
    /\ UNCHANGED <<periph, sensorCtl>>
    /\ \E reads \in SwitchReads :
         /\ Triggers(reads)
         /\ pulseA' = -SeekCount(reads, 1)
         /\ pulseB' = -SeekCount(reads, 1)
         /\ act' = Act("seek", <<HighBefore(reads)>>, FALSE)
    /\ hpc' = "backoff"
    /\ out' = <<>>
    /\ UNCHANGED <<currentStepsX, currentStepsY, currentPosX, currentPosY,
                   targetStepsX, targetStepsY, isMoving, isHomed, currentSpeed,
                   stepDelay, lastStepTime, now>>

\* one iteration of the seek loop whose poll reads HIGH: one pulse on both
\* motors toward the switch, and the loop goes on
HomeSeekPoll ==
    /\ hpc = "seek"
    /\ UNCHANGED <<periph, sensorCtl>>
    /\ pulseA' = -1 /\ pulseB' = -1
    /\ act' = Act("poll", <<>>, FALSE)
    /\ out' = <<>>
    /\ UNCHANGED <<currentStepsX, currentStepsY, currentPosX, currentPosY,
                   targetStepsX, targetStepsY, isMoving, isHomed, currentSpeed,
                   stepDelay, lastStepTime, now, hpc>>

\* direction HIGH on both motors, the back-off pulses, then the zero-reset
HomeBackoff ==
    /\ hpc = "backoff"
    /\ UNCHANGED <<periph, sensorCtl>>
    /\ pulseA' = BackoffCount(0)
    /\ pulseB' = BackoffCount(0)
    /\ currentStepsX' = 0 /\ currentStepsY' = 0
    /\ currentPosX' = 0 /\ currentPosY' = 0
    /\ isHomed' = TRUE
    /\ out' = <<StatusMsg("homed")>>
    /\ hpc' = "loop"
    /\ act' = Act("backoff", act.args, FALSE)
    /\ UNCHANGED <<targetStepsX, targetStepsY, isMoving, currentSpeed, stepDelay,
                   lastStepTime, now>>

----------------------------------------------------------------------------
(* The clock: micros() advances between steps, by one of dts, and wraps.     *)
(* homeGantry never reads the clock: the time it takes passes, for the       *)
(* model, once it has returned.                                              *)

AdvanceTime(dts) ==
    /\ hpc = "loop"
    /\ UNCHANGED <<periph, sensorCtl>>
    /\ \E dt \in dts : now' = (now + dt) % ClockMod
    /\ act' = Act("time", <<>>, FALSE)
    /\ out' = <<>>
    /\ NoPulse
    /\ UNCHANGED <<currentStepsX, currentStepsY, currentPosX, currentPosY,
                   targetStepsX, targetStepsY, isMoving, isHomed, currentSpeed,
                   stepDelay, lastStepTime, hpc>>

----------------------------------------------------------------------------
(* History variables.  They record what the steps did and guard nothing the  *)
(* program does.                                                             *)

\* the step set lastStepTime: a tick that passed the delay gate
SetLastStepTime == act'.name = "tick" /\ (pulseA' # 0 \/ pulseB' # 0)

\* the step ended with the zero-reset of homeGantry
ZeroReset == act'.name = "backoff"

SinceStepUpdate ==
    sinceStep' = IF SetLastStepTime THEN 0
                 ELSE Min(sinceStep + ((now' - now) % ClockMod), ClockMod)

NetUpdate ==
    /\ netA' = IF ZeroReset THEN 0 ELSE netA + pulseA'
    /\ netB' = IF ZeroReset THEN 0 ELSE netB + pulseB'

\* the commands of a specification without pending lines are served by the
\* iteration of loop() in which they arrive
NoHistory == UNCHANGED <<sinceStep, netA, netB, rx>>

----------------------------------------------------------------------------
(* Spec: every command, every target, ticks, and a clock that advances in    *)
(* whole delays                                                             *)

Next ==
    \/ LoopTick /\ NoHistory
    \/ CmdMoveAbsolute(XIn, YIn, SpeedIn) /\ NoHistory
    \/ CmdMoveRelative(DIn) /\ NoHistory
    \/ CmdStop /\ NoHistory
    \/ CmdGetPosition /\ NoHistory
    \/ CmdIgnored /\ NoHistory
    \/ CmdHome /\ NoHistory
    \/ HomeSeek /\ NoHistory
    \/ HomeBackoff /\ NoHistory
    \/ AdvanceTime(DtIn) /\ NoHistory

Spec == Init /\ [][Next]_vars

----------------------------------------------------------------------------
(* SpecClock: the timing environment.  One target, every outcome of the      *)
(* speed key, a clock that advances in single microseconds, and the time     *)
(* elapsed since lastStepTime was set.                                       *)

NextClock ==
    \/ LoopTick /\ SinceStepUpdate /\ UNCHANGED <<netA, netB, rx>>
    \/ CmdMoveAbsolute(XClock, YClock, SpeedClock) /\ SinceStepUpdate
         /\ UNCHANGED <<netA, netB, rx>>
    \/ CmdStop /\ SinceStepUpdate /\ UNCHANGED <<netA, netB, rx>>
    \/ CmdHome /\ SinceStepUpdate /\ UNCHANGED <<netA, netB, rx>>
    \/ HomeSeek /\ SinceStepUpdate /\ UNCHANGED <<netA, netB, rx>>
    \/ HomeBackoff /\ SinceStepUpdate /\ UNCHANGED <<netA, netB, rx>>
    \/ AdvanceTime(DtClock) /\ SinceStepUpdate /\ UNCHANGED <<netA, netB, rx>>

SpecClock == Init /\ [][NextClock]_vars

----------------------------------------------------------------------------
(* SpecPulses: homing, move_absolute without a speed key, stop and ticks,    *)
(* with the pulses of both motors counted, followed while the counts stay    *)
(* within MaxNet.                                                            *)

NetWithin == Abs(netA') <= MaxNet /\ Abs(netB') <= MaxNet

NextPulses ==
    \/ LoopTick /\ NetUpdate /\ NetWithin /\ UNCHANGED <<sinceStep, rx>>
    \/ CmdMoveAbsolute(XIn, YIn, {}) /\ NetUpdate /\ UNCHANGED <<sinceStep, rx>>
    \/ CmdStop /\ NetUpdate /\ UNCHANGED <<sinceStep, rx>>
    \/ CmdHome /\ NetUpdate /\ UNCHANGED <<sinceStep, rx>>
    \/ HomeSeek /\ NetUpdate /\ UNCHANGED <<sinceStep, rx>>
    \/ HomeBackoff /\ NetUpdate /\ UNCHANGED <<sinceStep, rx>>
    \/ AdvanceTime(DtIn) /\ NetUpdate /\ UNCHANGED <<sinceStep, rx>>

SpecPulses == Init /\ [][NextPulses]_vars

----------------------------------------------------------------------------
(* SpecMove: boot, one homing run, one move_absolute, and then no command:   *)
(* only ticks, each taken when the clock has advanced by stepDelay since the *)
(* tick before.  The loop never stops calling stepMotors while isMoving.     *)

\* loop() finds isMoving and calls stepMotors() stepDelay after the last tick
TickDue ==
    /\ hpc = "loop"
    /\ UNCHANGED <<periph, sensorCtl>>
    /\ act.name \in {"move_absolute", "tick"}
    /\ LoopGuard
    /\ now' = (now + stepDelay) % ClockMod
    /\ StepMotors(now')
    /\ act' = Act("tick", <<>>, FALSE)
    /\ UNCHANGED <<targetStepsX, targetStepsY, isHomed, currentSpeed, stepDelay, hpc>>

NextMove ==
    \/ act.name = "boot" /\ CmdHome /\ NoHistory
    \/ HomeSeek /\ NoHistory
    \/ HomeBackoff /\ NoHistory
    \/ act.name = "backoff" /\ CmdMoveAbsolute(XIn, YIn, SpeedIn) /\ NoHistory
    \/ TickDue /\ NoHistory

SpecMove == Init /\ [][NextMove]_vars /\ WF_vars(TickDue /\ NoHistory)

----------------------------------------------------------------------------
(* SpecCmds: every command of processUARTCommand, the magnet and fan         *)
(* commands among them, with one absolute target and every kind of speed.    *)
(* The clock stands still: a tick pulses when the speed key left a delay     *)
(* of 0.                                                                     *)

NextCmds ==
    \/ LoopTick /\ NoHistory
    \/ CmdMoveAbsolute(XClock, YClock, SpeedAny) /\ NoHistory
    \/ CmdMoveRelative(DCmds) /\ NoHistory
    \/ CmdStop /\ NoHistory
    \/ CmdGetPosition /\ NoHistory
    \/ CmdIgnored /\ NoHistory
    \/ CmdMagnet(MagnetIn) /\ NoHistory
    \/ CmdSetFan(FanIn, PwmIn) /\ NoHistory
    \/ CmdHome /\ NoHistory
    \/ HomeSeek /\ NoHistory
    \/ HomeBackoff /\ NoHistory

SpecCmds == Init /\ [][NextCmds]_vars

----------------------------------------------------------------------------
(* SpecHoming: the loop and a homing run as the host sees them.  loop()      *)
(* reads Serial1 only between its calls of stepMotors and of the handlers:   *)
(* a line that arrives while homeGantry runs waits in rx until homeGantry    *)
(* has returned, and is served before anything else.  The limit switch is    *)
(* the environment's: the seek loop goes on for as long as it reads HIGH.    *)

\* the host sends stop while homeGantry runs
StopArrives ==
    /\ hpc # "loop"
    /\ rx = <<>>
    /\ rx' = <<"stop">>
    /\ UNCHANGED <<prog, periph, sinceStep, netA, netB, sensorCtl>>

\* while (Serial1.available()): the pending line is read and routed
ServePending ==
    /\ rx # <<>>
    /\ Head(rx) = "stop"
    /\ CmdStop
    /\ rx' = Tail(rx)
    /\ UNCHANGED <<sinceStep, netA, netB>>

\* nothing is pending: the step is the loop's next
NonePending == rx = <<>> /\ NoHistory

NextHoming ==
    \/ CmdHome /\ NonePending
    \/ HomeSeekPoll /\ NoHistory
    \/ HomeSeek /\ NoHistory
    \/ HomeBackoff /\ NoHistory
    \/ StopArrives
    \/ ServePending
    \/ CmdMoveAbsolute(XClock, YClock, {}) /\ NonePending
    \/ CmdStop /\ NonePending
    \/ LoopTick /\ NonePending
    \/ AdvanceTime(DtIn) /\ NonePending

\* the processor keeps running: the seek loop iterates, the back-off loop
\* ends after its fixed count, and loop() reads what is pending.  Nothing
\* makes the switch trigger.
SpecHoming ==
    /\ Init /\ [][NextHoming]_vars
    /\ WF_vars(HomeSeekPoll /\ NoHistory)
    /\ []<>(hpc # "backoff")
    /\ WF_vars(ServePending)

----------------------------------------------------------------------------
(* SpecSched: the step scheduler on its own.  A move is in progress from any *)
(* position of the board to any target of the board, and loop() calls        *)
(* stepMotors every stepDelay.                                               *)

BoardX == 0 .. (MAX_X_MM * STEPS_PER_MM)

BoardY == 0 .. (MAX_Y_MM * STEPS_PER_MM)

InitSched ==
    /\ currentStepsX \in BoardX /\ currentStepsY \in BoardY
    /\ currentPosX = MmOfSteps(currentStepsX)
    /\ currentPosY = MmOfSteps(currentStepsY)
    /\ targetStepsX \in BoardX /\ targetStepsY \in BoardY
    /\ isMoving = TRUE /\ isHomed = TRUE
    /\ currentSpeed = DEFAULT_SPEED
    /\ stepDelay = MICROS_PER_SEC \div DEFAULT_SPEED
    /\ lastStepTime = 0
    /\ now = 0
    /\ hpc = "loop"
    /\ act = Act("tick", <<>>, FALSE)
    /\ out = <<>>
    /\ pulseA = 0 /\ pulseB = 0
    /\ magnetStates = [i \in 0 .. 3 |-> FALSE]
    /\ fanPwm = [i \in 0 .. 3 |-> 128]
    /\ rx = <<>>
    /\ sinceStep = 0
    /\ netA = 0 /\ netB = 0
    /\ SensorInit

NextSched == TickDue /\ NoHistory

SpecSched == InitSched /\ [][NextSched]_vars

----------------------------------------------------------------------------
(* The sensor controller: scanSensors *)

\* uint8_t readMultiplexer(muxIndex, channel)
ReadMultiplexer(pins, muxIndex, channel) ==
    IF muxIndex \in 0 .. 3 THEN pins[<<muxIndex, channel>>] ELSE 0

\* bool pieceDetected = !readMultiplexer(muxIndex, channel), for every square
ScanResult(pins) ==
    [sq \in Squares |->
        ReadMultiplexer(pins, MuxIndex(sq[1]), Channel(sq[1], sq[2])) = 0]

\* an update sent by every scan
ChangedAlways(ss, ls) == TRUE

\* changed: some square differs from lastSensorState
Changed(ss, ls) == \E sq \in Squares : ss[sq] # ls[sq]

SensorUpdateMsg(ss) == [type |-> "sensor_update", sensors |-> ss]

\* what scanSensors sends
ScanMessages(ss, ls) == IF Changed(ss, ls) THEN <<SensorUpdateMsg(ss)>> ELSE <<>>

\* scanSensors(), with the levels it reads
ScanSensors(pins) ==
    /\ sensorState' = ScanResult(pins)
    /\ lastSensorState' = IF Changed(sensorState', lastSensorState)
                          THEN sensorState' ELSE lastSensorState

\* unsigned long subtraction currentTime - last; millis() is followed for
\* MaxElapsed after setup() and does not wrap in that time
MillisSince(currentTime, last) == currentTime - last

\* loop(): the scan, when SCAN_INTERVAL_MS has elapsed
SLoopScan(pinSets) ==
    /\ spc = <<"scan", 0>>
    /\ IF MillisSince(millis, lastScanTime) >= SCAN_INTERVAL_MS
       THEN /\ \E pins \in pinSets : ScanSensors(pins)
            /\ sout' = ScanMessages(sensorState', lastSensorState)
            /\ lastScanTime' = millis
            /\ sact' = SAct("scan", 1)
       ELSE /\ sout' = <<>>
            /\ sact' = SAct("scan", 0)
            /\ UNCHANGED <<sensorState, lastSensorState, lastScanTime>>
    /\ spc' = <<"buttons", 0>>
    /\ UNCHANGED <<buttonStates, lastButtonStates, lastButtonPress, encoderPosition,
                   lastEncoderPosition, encLastA, millis, btnEvent, encReported>>
    /\ UNCHANGED motorCtl

----------------------------------------------------------------------------
(* The sensor controller: readButtons *)

\* the debounce: a change is taken when more than BUTTON_DEBOUNCE_MS has gone
\* by since the last change taken
ButtonTaken(raw, i) ==
    /\ raw[i] # lastButtonStates[i]
    /\ MillisSince(millis, lastButtonPress[i]) > BUTTON_DEBOUNCE_MS

ButtonEventMsg(i, pressed) ==
    [type |-> "button", button |-> i + 1,
     state |-> IF pressed THEN "pressed" ELSE "released"]

RECURSIVE ButtonEventsFrom(_, _)
\* for (int i = 0; i < 6; i++): the events in the order they are sent
ButtonEventsFrom(raw, i) ==
    IF i < NUM_BUTTONS
    THEN (IF ButtonTaken(raw, i) THEN <<ButtonEventMsg(i, raw[i])>> ELSE <<>>)
            \o ButtonEventsFrom(raw, i + 1)
    ELSE <<>>

\* loop(): readButtons(), with the states it reads
SLoopButtons(rawSets) ==
    /\ spc = <<"buttons", 0>>
    /\ \E raw \in rawSets :
         /\ buttonStates' = [i \in Buttons |->
                IF ButtonTaken(raw, i) THEN raw[i] ELSE buttonStates[i]]
         /\ lastButtonPress' = [i \in Buttons |->
                IF ButtonTaken(raw, i) THEN millis ELSE lastButtonPress[i]]
         /\ lastButtonStates' = raw
         /\ sout' = ButtonEventsFrom(raw, 0)
         /\ btnEvent' = [i \in Buttons |->
                IF ButtonTaken(raw, i)
                THEN (IF raw[i] THEN "pressed" ELSE "released")
                ELSE btnEvent[i]]
    /\ sact' = SAct("buttons", 0)
    /\ spc' = <<"test", 1>>
    /\ UNCHANGED <<sensorState, lastSensorState, lastScanTime, encoderPosition,
                   lastEncoderPosition, encLastA, millis, encReported>>
    /\ UNCHANGED motorCtl

----------------------------------------------------------------------------
(* The sensor controller: the encoders.  encoderNPosition is volatile and    *)
(* is written by the interrupt handler; loop() reads it three times, in the  *)
(* condition, in the delta and in the assignment to lastEncoderNPosition,    *)
(* and the handler may run between any two of them.                          *)

\* where loop() goes on after the block of encoder e
AfterEncoder(e) == IF e < NUM_ENCODERS THEN <<"test", e + 1>> ELSE <<"uart", 0>>

\* if (encoderNPosition != lastEncoderNPosition)
SEncTest ==
    /\ spc[1] = "test"
    /\ spc' = IF encoderPosition[spc[2]] # lastEncoderPosition[spc[2]]
              THEN <<"delta", spc[2]>> ELSE AfterEncoder(spc[2])
    /\ sact' = SAct("enc_test", spc[2])
    /\ sout' = <<>>
    /\ UNCHANGED <<sensorState, lastSensorState, lastScanTime, buttonStates,
                   lastButtonStates, lastButtonPress, encoderPosition,
                   lastEncoderPosition, encLastA, millis, btnEvent, encReported>>
    /\ UNCHANGED motorCtl

EncoderEventMsg(e, delta) == [type |-> "encoder", encoder |-> e, delta |-> delta]

\* int delta = encoderNPosition - lastEncoderNPosition; sendEncoderEvent(N, delta)
SEncDelta ==
    /\ spc[1] = "delta"
    /\ LET e == spc[2]
           delta == encoderPosition[e] - lastEncoderPosition[e]
       IN  /\ sout' = <<EncoderEventMsg(e, delta)>>
           /\ encReported' = [encReported EXCEPT ![e] = @ + delta]
           /\ sact' = SAct("enc_delta", e)
           /\ spc' = <<"store", e>>
    /\ UNCHANGED <<sensorState, lastSensorState, lastScanTime, buttonStates,
                   lastButtonStates, lastButtonPress, encoderPosition,
                   lastEncoderPosition, encLastA, millis, btnEvent>>
    /\ UNCHANGED motorCtl

\* lastEncoderNPosition = encoderNPosition
SEncStore ==
    /\ spc[1] = "store"
    /\ lastEncoderPosition' =
           [lastEncoderPosition EXCEPT ![spc[2]] = encoderPosition[spc[2]]]
    /\ sact' = SAct("enc_store", spc[2])
    /\ sout' = <<>>
    /\ spc' = AfterEncoder(spc[2])
    /\ UNCHANGED <<sensorState, lastSensorState, lastScanTime, buttonStates,
                   lastButtonStates, lastButtonPress, encoderPosition, encLastA,
                   millis, btnEvent, encReported>>
    /\ UNCHANGED motorCtl

\* encoder1ISR, encoder2ISR: the handler of a change of pin A, with the levels
\* a and b it reads; it runs to its end wherever loop() is
EncoderISR ==
    /\ \E e \in Encoders, a \in {0, 1}, b \in {0, 1} :
         /\ IF a # encLastA[e]
            THEN /\ encoderPosition' =
                       IF a = 0
                       THEN [encoderPosition EXCEPT
                               ![e] = @ + (IF b = 1 THEN 1 ELSE -1)]
                       ELSE encoderPosition
                 /\ encLastA' = [encLastA EXCEPT ![e] = a]
            ELSE UNCHANGED <<encoderPosition, encLastA>>
         /\ sact' = SAct("isr", e)
    /\ sout' = <<>>
    /\ UNCHANGED <<sensorState, lastSensorState, lastScanTime, buttonStates,
                   lastButtonStates, lastButtonPress, lastEncoderPosition, millis,
                   spc, btnEvent, encReported>>
    /\ UNCHANGED motorCtl

----------------------------------------------------------------------------
(* The sensor controller: Serial1 and the clock *)

\* while (Serial1.available()): nothing, scan_sensors, or a line that touches
\* none of the state followed here (the LED commands, a bad line)
SLoopUart(cmds, pinSets) ==
    /\ spc = <<"uart", 0>>
    /\ \E cmd \in cmds :
         IF cmd = "scan_sensors"
         THEN /\ \E pins \in pinSets : ScanSensors(pins)
              /\ sout' = ScanMessages(sensorState', lastSensorState)
                             \o <<SensorUpdateMsg(sensorState')>>
              /\ sact' = SAct("scan_sensors", 1)
         ELSE /\ sout' = <<>>
              /\ sact' = SAct("uart", IF cmd = "none" THEN 0 ELSE 1)
              /\ UNCHANGED <<sensorState, lastSensorState>>
    /\ spc' = <<"scan", 0>>
    /\ UNCHANGED <<lastScanTime, buttonStates, lastButtonStates, lastButtonPress,
                   encoderPosition, lastEncoderPosition, encLastA, millis, btnEvent,
                   encReported>>
    /\ UNCHANGED motorCtl

\* millis() advances between the iterations of loop() and inside them
SAdvance(dts) ==
    /\ spc[1] \in {"scan", "buttons"}
    /\ \E dt \in dts :
         /\ millis + dt <= BOOT_DELAY_MS + MaxElapsed
         /\ millis' = millis + dt
    /\ sact' = SAct("time", 0)
    /\ sout' = <<>>
    /\ UNCHANGED <<sensorState, lastSensorState, lastScanTime, buttonStates,
                   lastButtonStates, lastButtonPress, encoderPosition,
                   lastEncoderPosition, encLastA, spc, btnEvent, encReported>>
    /\ UNCHANGED motorCtl

\* what the clock of the sensor controller advances by
DtMillis == {1}

----------------------------------------------------------------------------
(* SpecScan: the sensor controller with a few pieces coming and going, the   *)
(* host asking for scans, and nobody at the buttons and encoders.            *)

NextScan ==
    \/ SLoopScan(PinsFew)
    \/ SLoopButtons(RawReleased)
    \/ SEncTest
    \/ SLoopUart(SensorCmds, PinsFew)
    \/ SAdvance(DtMillis)

SpecScan == Init /\ [][NextScan]_vars

----------------------------------------------------------------------------
(* SpecButtons: the sensor controller with the buttons read in any state at  *)
(* any time, an empty board and idle encoders.                               *)

NextButtons ==
    \/ SLoopScan(PinsHigh)
    \/ SLoopButtons(RawButtons)
    \/ SEncTest
    \/ SLoopUart({"none"}, PinsHigh)
    \/ SAdvance(DtMillis)

SpecButtons == Init /\ [][NextButtons]_vars

----------------------------------------------------------------------------
(* SpecEncoder: the sensor controller with the encoders turned either way    *)
(* at any time, followed while the counts stay within MaxEnc.                *)

EncWithin ==
    \A e \in Encoders :
        Abs(encoderPosition'[e]) <= MaxEnc /\ Abs(encReported'[e]) <= MaxEnc

NextEncoder ==
    \/ SLoopScan(PinsHigh)
    \/ SLoopButtons(RawReleased)
    \/ SEncTest
    \/ SEncDelta /\ EncWithin
    \/ SEncStore
    \/ EncoderISR /\ EncWithin
    \/ SLoopUart({"none"}, PinsHigh)

SpecEncoder == Init /\ [][NextEncoder]_vars

----------------------------------------------------------------------------
(* Claims *)

Max(a, b) == IF a > b THEN a ELSE b

Moves == {"move_absolute", "move_relative"}

\* the steps of h/InRes mm clamped to [0, maxMm], as a long
ExpectedTarget(h, maxMm) == (STEPS_PER_MM * Min(Max(h, 0), maxMm * InRes)) \div InRes

\* C1: whenever the program is in its loop, (currentStepsX, currentStepsY) is
\* the Cartesian position of the pulses issued since the last zero-reset:
\* currentStepsX = (netA + netB) / 2 and currentStepsY = (netA - netB) / 2.
C1_PositionIsPulseIntegral ==
    hpc = "loop" =>
        /\ currentStepsX = Trunc(netA + netB, 2)
        /\ currentStepsY = Trunc(netA - netB, 2)

\* C2: after homing and one move_absolute, with no further command and a tick
\* every stepDelay, the scheduler eventually reaches the target and clears
\* isMoving.
C2_MoveReachesTarget ==
    (act.name = "move_absolute" /\ isMoving)
        ~> (~isMoving /\ currentStepsX = targetStepsX /\ currentStepsY = targetStepsY)

\* C3: stepMotors runs only while a move is in progress; the tick that finds
\* both remaining deltas zero emits the one position report and clears
\* isMoving, every other tick emits nothing and leaves isMoving set; and
\* isMoving is set again only by a move command, so no second completion
\* report follows before one.
C3_OneCompletionReport ==
    [][ /\ act'.name = "tick" =>
             /\ isMoving
             /\ IF targetStepsX = currentStepsX /\ targetStepsY = currentStepsY
                THEN /\ out' = <<[type |-> "position", x |-> currentPosX,
                                  y |-> currentPosY, homed |-> isHomed]>>
                     /\ ~isMoving'
                ELSE /\ out' = <<>>
                     /\ isMoving'
        /\ (~isMoving /\ isMoving') => act'.name \in Moves
      ]_vars

C3_Witness ==
    /\ act.name = "tick"
    /\ ~isMoving
    /\ Len(out) = 1 /\ out[1].type = "position"

\* C4: a move_absolute or move_relative received while isHomed is false leaves
\* currentStepsX/Y, targetStepsX/Y and isMoving unchanged, emits exactly one
\* status message, with status "error", and issues no pulse; isMoving stays
\* false, so no later tick pulses because of it.
C4_NotHomedRejected ==
    [][ (act'.name \in Moves /\ ~isHomed) =>
            /\ UNCHANGED <<currentStepsX, currentStepsY, targetStepsX, targetStepsY,
                           isMoving>>
            /\ out' = <<[type |-> "status", status |-> "error"]>>
            /\ pulseA' = 0 /\ pulseB' = 0
            /\ ~isMoving'
      ]_vars

C4_Witness ==
    /\ act.name = "move_absolute"
    /\ ~isHomed
    /\ out = <<[type |-> "status", status |-> "error"]>>

\* C5: a move_absolute rejected because isHomed is false changes no state:
\* currentSpeed and stepDelay keep their values also when the command carries
\* a speed key.
C5_RejectedMoveChangesNothing ==
    [][ (act'.name = "move_absolute" /\ ~isHomed) =>
            UNCHANGED <<currentSpeed, stepDelay, currentStepsX, currentStepsY,
                        currentPosX, currentPosY, targetStepsX, targetStepsY,
                        isMoving, isHomed, lastStepTime>>
      ]_vars

\* C6: a move_absolute(x, y) received while homed is never rejected: the target
\* becomes the steps of x and y clamped to the board, STEPS_PER_MM *
\* min(max(x, 0), MAX_X_MM) converted to long (and the same for y), no message
\* is emitted and isMoving becomes true.
C6_TargetClamped ==
    [][ (act'.name = "move_absolute" /\ isHomed) =>
            /\ targetStepsX' = ExpectedTarget(act'.args[1], MAX_X_MM)
            /\ targetStepsY' = ExpectedTarget(act'.args[2], MAX_Y_MM)
            /\ out' = <<>>
            /\ isMoving'
      ]_vars

C6_Witness ==
    /\ act.name = "move_absolute"
    /\ act.args[1] > MAX_X_MM * InRes
    /\ isMoving
    /\ targetStepsX = MAX_X_MM * STEPS_PER_MM

\* C7: once homed, the position stays on the board:
\* 0 <= currentStepsX <= MAX_X_MM * STEPS_PER_MM and
\* 0 <= currentStepsY <= MAX_Y_MM * STEPS_PER_MM.
C7_WithinBoard ==
    (isHomed /\ hpc = "loop") =>
        /\ 0 <= currentStepsX /\ currentStepsX <= MAX_X_MM * STEPS_PER_MM
        /\ 0 <= currentStepsY /\ currentStepsY <= MAX_Y_MM * STEPS_PER_MM

\* C8: stop sets the target to the current position and clears isMoving at
\* once, without a pulse; and from a state with isMoving false every step
\* that is not an accepted move command or part of a homing run issues no
\* pulse, leaves currentStepsX/Y unchanged and leaves isMoving false.
C8_StopHalts ==
    [][ /\ act'.name = "stop" =>
             /\ targetStepsX' = currentStepsX /\ targetStepsY' = currentStepsY
             /\ ~isMoving'
             /\ pulseA' = 0 /\ pulseB' = 0
             /\ UNCHANGED <<currentStepsX, currentStepsY>>
        /\ ( /\ ~isMoving
             /\ ~(act'.name \in Moves /\ isHomed)
             /\ act'.name \notin {"home", "seek", "backoff"} ) =>
             /\ pulseA' = 0 /\ pulseB' = 0
             /\ UNCHANGED <<currentStepsX, currentStepsY>>
             /\ ~isMoving'
      ]_vars

C8_Witness ==
    /\ act.name = "stop"
    /\ act.busy
    /\ ~isMoving
    /\ targetStepsX = currentStepsX /\ targetStepsY = currentStepsY

\* C9: a tick issues at most one pulse on motor A and at most one on motor B,
\* and it issues a pulse only when at least stepDelay has elapsed since
\* lastStepTime was set.
C9_PulseRate ==
    [][ act'.name = "tick" =>
            /\ pulseA' \in {-1, 0, 1} /\ pulseB' \in {-1, 0, 1}
            /\ (pulseA' # 0 \/ pulseB' # 0) => sinceStep >= stepDelay
      ]_vars

C9_Witness ==
    /\ act.name = "tick"
    /\ pulseA # 0
    /\ stepDelay > 0
    /\ sinceStep = 0

\* C10: a homing run whose limit switch reads triggered after N polls issues
\* N pulses on both motors toward the switch, then exactly BACKOFF_STEPS (100)
\* pulses on both motors away from it, whatever N is, then zeroes the position,
\* sets isHomed and emits the one "homed" status.
C10_Homing ==
    [][ /\ (hpc = "loop" /\ hpc' = "seek") =>
             /\ pulseA' = 0 /\ pulseB' = 0
             /\ out' = <<>>
             /\ ~isHomed'
        /\ (hpc = "seek" /\ hpc' # "seek") =>
             /\ hpc' = "backoff"
             /\ pulseA' = -act'.args[1] /\ pulseB' = -act'.args[1]
             /\ out' = <<>>
             /\ ~isHomed'
        /\ (hpc = "backoff" /\ hpc' # "backoff") =>
             /\ hpc' = "loop"
             /\ pulseA' = BACKOFF_STEPS /\ pulseB' = BACKOFF_STEPS
             /\ currentStepsX' = 0 /\ currentStepsY' = 0
             /\ isHomed'
             /\ out' = <<[type |-> "status", status |-> "homed"]>>
      ]_vars

C10_Witness ==
    /\ act.name = "backoff"
    /\ act.args = <<MaxSeek>>
    /\ isHomed
    /\ currentStepsX = 0 /\ currentStepsY = 0
    /\ pulseA = BACKOFF_STEPS

\* the commands that are neither home nor part of a homing run, and the tick
NotHoming == {"move_absolute", "move_relative", "stop", "get_position",
              "magnet_on", "magnet_off", "set_fan", "ignored", "tick"}

\* C11: isHomed is false at boot; every homing run clears it at its start; it
\* becomes true only at the end of a homing run, in the step that zeroed the
\* position; it becomes false only at the start of a homing run; and
\* move_absolute, move_relative, stop, get_position, the magnet and fan
\* commands, ignored lines and ticks leave it unchanged.
C11_HomedLifecycle ==
    [][ /\ act.name = "boot" => ~isHomed
        /\ act'.name = "home" => ~isHomed'
        /\ (~isHomed /\ isHomed') =>
             /\ act'.name = "backoff"
             /\ currentStepsX' = 0 /\ currentStepsY' = 0
             /\ currentPosX' = 0 /\ currentPosY' = 0
        /\ (isHomed /\ ~isHomed') => act'.name = "home"
        /\ act'.name \in NotHoming => UNCHANGED isHomed
      ]_vars

C11_Witness ==
    /\ act.name = "home"
    /\ ~isHomed
    /\ currentStepsX # 0
    /\ magnetStates[0]

\* C12: a homing run started while a move was in progress (isMoving, target
\* not reached) ends with isMoving false and the target equal to the zeroed
\* position.
C12_HomeStopsMove ==
    [][ (hpc = "backoff" /\ hpc' = "loop" /\ Busy) =>
            /\ ~isMoving'
            /\ targetStepsX' = currentStepsX' /\ targetStepsY' = currentStepsY'
      ]_vars

\* C13: isMoving is never true while a homing run is in progress.
C13_MovingExcludesHoming == hpc # "loop" => ~isMoving

\* C14: a move_absolute or move_relative received while isMoving is true
\* leaves targetStepsX and targetStepsY unchanged.
C14_TargetOnlyWhenIdle ==
    [][ (act'.name \in Moves /\ isMoving) => UNCHANGED <<targetStepsX, targetStepsY>>
      ]_vars

\* C15: in every state 0 < currentSpeed <= MAX_SPEED and stepDelay is the
\* positive value MICROS_PER_SEC / currentSpeed.
C15_SpeedBounded ==
    /\ 0 < currentSpeed
    /\ currentSpeed <= MAX_SPEED
    /\ stepDelay = MICROS_PER_SEC \div currentSpeed
    /\ stepDelay > 0

\* C16: currentSpeed and stepDelay change only while isMoving is false.
C16_SpeedOnlyWhenIdle ==
    [][ isMoving => UNCHANGED <<currentSpeed, stepDelay>> ]_vars

\* C17: once a stop has arrived, no step issues more than the one pulse per
\* motor that a single tick may issue, whatever the program is doing.
C17_StopWithinOneTick ==
    [][ rx # <<>> => (Abs(pulseA') <= 1 /\ Abs(pulseB') <= 1) ]_vars

\* C18: the handler of home returns, whatever the limit switch reads: a
\* homing run that has started is followed by the program back in its loop.
C18_HomeReturns == (hpc = "seek") ~> (hpc = "loop")

\* C19: for the remaining distance (dx, dy) of any state, with stepsA = dx +
\* dy and stepsB = dx - dy, ((stepsA + stepsB) / 2, (stepsA - stepsB) / 2) is
\* (dx, dy) whenever dx + dy is even.
C19_RoundTrip ==
    LET dx == targetStepsX - currentStepsX
        dy == targetStepsY - currentStepsY
        stepsA == StepsA(dx, dy)
        stepsB == StepsB(dx, dy)
    IN  (dx + dy) % 2 = 0 =>
            /\ Trunc(stepsA + stepsB, 2) = dx
            /\ Trunc(stepsA - stepsB, 2) = dy

C19_Witness ==
    /\ act.name = "tick"
    /\ pulseA # 0 /\ pulseB # 0
    /\ targetStepsX - currentStepsX = -1
    /\ targetStepsY - currentStepsY = 1

\* C20: a pulsing tick with exactly one of stepsA, stepsB nonzero and
\* remainingY nonzero moves currentStepsY by one step with the sign of
\* remainingY.
C20_SingleMotorY ==
    [][ LET remainingX == targetStepsX - currentStepsX
            remainingY == targetStepsY - currentStepsY
            stepsA == StepsA(remainingX, remainingY)
            stepsB == StepsB(remainingX, remainingY)
        IN  ( /\ act'.name = "tick"
              /\ (pulseA' # 0 \/ pulseB' # 0)
              /\ (stepsA = 0) # (stepsB = 0)
              /\ remainingY # 0 ) =>
                currentStepsY' = currentStepsY + (IF remainingY > 0 THEN 1 ELSE -1)
      ]_vars

\* the steps of (s steps + d/InRes mm) clamped to [0, maxMm], as a long
ExpectedRelative(s, d, maxMm) ==
    Min(Max(s * InRes + d * STEPS_PER_MM, 0), maxMm * Unit) \div InRes

\* C21: a move_relative(dx, dy) received while homed sets the target to the
\* steps of the position at the time of the command plus (dx, dy), clamped to
\* the board, emits nothing and sets isMoving; received while not homed it
\* changes neither position, target nor isMoving and emits the one error
\* status.
C21_MoveRelative ==
    [][ act'.name = "move_relative" =>
            IF isHomed
            THEN /\ targetStepsX' = ExpectedRelative(currentStepsX, act'.args[1], MAX_X_MM)
                 /\ targetStepsY' = ExpectedRelative(currentStepsY, act'.args[2], MAX_Y_MM)
                 /\ isMoving'
                 /\ out' = <<>>
                 /\ UNCHANGED <<currentStepsX, currentStepsY>>
            ELSE /\ UNCHANGED <<currentStepsX, currentStepsY, targetStepsX,
                                targetStepsY, isMoving>>
                 /\ out' = <<[type |-> "status", status |-> "error"]>>
                 /\ pulseA' = 0 /\ pulseB' = 0
      ]_vars

C21_Witness ==
    /\ act.name = "move_relative"
    /\ act.busy
    /\ act.args[1] # 0
    /\ isMoving
    /\ targetStepsX # currentStepsX

\* C22: a line that does not parse, has no "cmd" or names an unknown command
\* changes none of currentStepsX/Y, targetStepsX/Y, isMoving, isHomed,
\* currentSpeed, stepDelay and magnetStates, emits no message to the host, and
\* leaves the program in its loop, where the next command is served.
C22_BadLineIgnored ==
    [][ act'.name = "ignored" =>
            /\ UNCHANGED <<currentStepsX, currentStepsY, targetStepsX, targetStepsY,
                           isMoving, isHomed, currentSpeed, stepDelay, magnetStates>>
            /\ out' = <<>>
            /\ hpc' = "loop"
      ]_vars

C22_Witness ==
    /\ act.name = "ignored"
    /\ act.busy
    /\ magnetStates[0]
    /\ out = <<>>

\* C23: stop leaves the position and isHomed unchanged, sets the target to the
\* position and clears isMoving, in every state of the loop; a stop that
\* follows a stop changes none of currentStepsX/Y, targetStepsX/Y, isMoving,
\* isHomed; and a stop received while isMoving is false leaves it false.
C23_StopIdempotent ==
    [][ act'.name = "stop" =>
            /\ UNCHANGED <<currentStepsX, currentStepsY, currentPosX, currentPosY,
                           isHomed>>
            /\ targetStepsX' = currentStepsX /\ targetStepsY' = currentStepsY
            /\ ~isMoving'
            /\ act.name = "stop" =>
                   UNCHANGED <<currentStepsX, currentStepsY, targetStepsX,
                               targetStepsY, isMoving, isHomed>>
      ]_vars

C23_Witness ==
    /\ act.name = "stop"
    /\ ~act.busy
    /\ ~isMoving
    /\ currentStepsX # 0
    /\ targetStepsX = currentStepsX /\ targetStepsY = currentStepsY

\* C24: get_position emits exactly one position report, with the current
\* position and the current isHomed, and changes none of currentStepsX/Y,
\* targetStepsX/Y, isMoving, isHomed, currentSpeed.
C24_GetPosition ==
    [][ act'.name = "get_position" =>
            /\ out' = <<[type |-> "position", x |-> currentPosX, y |-> currentPosY,
                         homed |-> isHomed]>>
            /\ currentPosX = currentStepsX * InRes
            /\ currentPosY = currentStepsY * InRes
            /\ UNCHANGED <<currentStepsX, currentStepsY, targetStepsX, targetStepsY,
                           isMoving, isHomed, currentSpeed>>
      ]_vars

C24_Witness ==
    /\ act.name = "get_position"
    /\ act.busy
    /\ Len(out) = 1 /\ out[1].type = "position"
    /\ out[1].x # 0
    /\ out[1].homed

\* C25: currentStepsX/Y change only in a pulsing tick taken while isMoving is
\* true or in the zero-reset that ends a homing run.
C25_PositionWriters ==
    [][ (currentStepsX' # currentStepsX \/ currentStepsY' # currentStepsY) =>
            \/ /\ act'.name = "tick"
               /\ isMoving
               /\ (pulseA' # 0 \/ pulseB' # 0)
            \/ act'.name = "backoff"
      ]_vars

C25_Witness ==
    /\ act.name \in {"magnet_on", "set_fan"}
    /\ act.busy
    /\ currentStepsX # 0

\* C26: a pulsing tick increases neither |targetStepsX - currentStepsX| nor
\* |targetStepsY - currentStepsY|, and decreases their sum by at least one.
C26_TickProgress ==
    [][ (act'.name = "tick" /\ (pulseA' # 0 \/ pulseB' # 0)) =>
            /\ Abs(targetStepsX' - currentStepsX') <= Abs(targetStepsX - currentStepsX)
            /\ Abs(targetStepsY' - currentStepsY') <= Abs(targetStepsY - currentStepsY)
            /\ Abs(targetStepsX' - currentStepsX') + Abs(targetStepsY' - currentStepsY')
                 < Abs(targetStepsX - currentStepsX) + Abs(targetStepsY - currentStepsY)
      ]_vars

\* C27: a tick taken while isMoving is true, the target is not reached and
\* less than stepDelay has elapsed since lastStepTime was set pulses neither
\* motor and leaves currentStepsX/Y, targetStepsX/Y, isMoving and
\* lastStepTime unchanged.
C27_GateClosedTick ==
    [][ ( /\ act'.name = "tick"
          /\ isMoving
          /\ (targetStepsX # currentStepsX \/ targetStepsY # currentStepsY)
          /\ sinceStep < stepDelay ) =>
            /\ pulseA' = 0 /\ pulseB' = 0
            /\ UNCHANGED <<currentStepsX, currentStepsY, targetStepsX, targetStepsY,
                           isMoving, lastStepTime>>
      ]_vars

C27_Witness ==
    /\ act.name = "tick"
    /\ isMoving
    /\ targetStepsX # currentStepsX
    /\ 0 < sinceStep /\ sinceStep < stepDelay
    /\ pulseA = 0 /\ pulseB = 0

\* C28: no encoder count is lost under any interleaving of the interrupt
\* handlers with loop(): whenever loop() starts an iteration, the sum of the
\* deltas reported for an encoder equals lastEncoderNPosition, the counter
\* value the reports have accounted for.
C28_NoCountLost ==
    spc = <<"scan", 0>> =>
        \A e \in Encoders : encReported[e] = lastEncoderPosition[e]

\* the button events among the messages of a step
ButtonEventsSent(msgs) ==
    {msgs[k] : k \in {j \in 1 .. Len(msgs) : msgs[j].type = "button"}}

\* C29: for each button the events sent by readButtons alternate between
\* "pressed" and "released", starting with "pressed": a "pressed" is sent only
\* when the last event of the button was not "pressed", and a "released" only
\* when it was "pressed".
C29_ButtonEventsAlternate ==
    [][\A m \in ButtonEventsSent(sout') :
          IF m.state = "pressed"
          THEN btnEvent[m.button - 1] # "pressed"
          ELSE btnEvent[m.button - 1] = "pressed"]_vars

\* C30: a periodic scanSensors run sends one sensor_update when some square
\* differs from lastSensorState and nothing otherwise, and after every
\* scanSensors run, periodic or commanded, lastSensorState equals sensorState.
C30_ScanReportsChanges ==
    [][/\ (sact'.name = "scan" /\ sact'.arg = 1) =>
            sout' = IF \E sq \in Squares : sensorState'[sq] # lastSensorState[sq]
                    THEN <<SensorUpdateMsg(sensorState')>>
                    ELSE <<>>
       /\ (sact'.arg = 1 /\ sact'.name \in {"scan", "scan_sensors"}) =>
            lastSensorState' = sensorState']_vars

\* a periodic scan has found a piece on a board reported empty and has sent it
C30_Witness ==
    /\ sact = SAct("scan", 1)
    /\ sout = <<SensorUpdateMsg(sensorState)>>
    /\ \E sq \in Squares : sensorState[sq]
    /\ lastSensorState = sensorState

\* C31: in every reachable state the target lies inside the board:
\* 0 <= targetStepsX <= MAX_X_MM * STEPS_PER_MM and
\* 0 <= targetStepsY <= MAX_Y_MM * STEPS_PER_MM, after any sequence of
\* move_absolute, move_relative, stop and home commands and ticks.
C31_TargetWithinBoard ==
    /\ 0 <= targetStepsX /\ targetStepsX <= MAX_X_MM * STEPS_PER_MM
    /\ 0 <= targetStepsY /\ targetStepsY <= MAX_Y_MM * STEPS_PER_MM

\* C32: the millimetre position used for reports and for move_relative
\* mirrors the step position: currentPosX = currentStepsX / STEPS_PER_MM and
\* currentPosY = currentStepsY / STEPS_PER_MM in every state, and so wherever
\* a command is processed or a report is sent (currentPos counts 1/Unit mm).
C32_PositionMirrorsSteps ==
    /\ currentPosX * STEPS_PER_MM = currentStepsX * Unit
    /\ currentPosY * STEPS_PER_MM = currentStepsY * Unit

\* a position report sent from a position that is not a whole millimetre
C32_Witness ==
    /\ act.name = "get_position"
    /\ out = <<PositionMsg>>
    /\ currentStepsX % STEPS_PER_MM # 0
    /\ currentPosX # 0

\* C33: a stepMotors tick that passes the delay gate with a nonzero remaining
\* distance pulses at least one motor (stepsA and stepsB are not both zero),
\* and lastStepTime is changed only by a tick that issues a pulse.
C33_GatePassedPulses ==
    [][ act'.name = "tick" =>
            /\ ( /\ isMoving
                 /\ (targetStepsX # currentStepsX \/ targetStepsY # currentStepsY)
                 /\ (now' - lastStepTime) % ClockMod >= stepDelay ) =>
                    (pulseA' # 0 \/ pulseB' # 0)
            /\ lastStepTime' # lastStepTime => (pulseA' # 0 \/ pulseB' # 0)
      ]_vars

\* a tick that passed the gate with stepsA zero: only motor B is pulsed
C33_Witness ==
    /\ act.name = "tick"
    /\ isMoving
    /\ pulseA = 0 /\ pulseB # 0
    /\ lastStepTime = now

\* C34: the delay gate is correct across the wrap-around of the microsecond
\* clock: a tick of a move in progress pulses iff (currentTime - lastStepTime)
\* modulo the clock range is at least stepDelay, and, as long as less than
\* one clock range has gone by since lastStepTime was set, iff at least
\* stepDelay has really elapsed since then: the move neither stalls nor
\* pulses early when micros() overflows.
C34_GateAcrossWrap ==
    [][ ( /\ act'.name = "tick"
          /\ isMoving
          /\ (targetStepsX # currentStepsX \/ targetStepsY # currentStepsY) ) =>
            /\ (pulseA' # 0 \/ pulseB' # 0) <=>
                 ((now' - lastStepTime) % ClockMod >= stepDelay)
            /\ sinceStep < ClockMod =>
                 ((pulseA' # 0 \/ pulseB' # 0) <=> (sinceStep >= stepDelay))
      ]_vars

\* micros() has overflowed since the last pulse and less than stepDelay has
\* elapsed: the tick does not pulse
C34_Witness ==
    /\ act.name = "tick"
    /\ isMoving
    /\ targetStepsX # currentStepsX
    /\ now < lastStepTime
    /\ sinceStep = (now - lastStepTime) % ClockMod
    /\ sinceStep < stepDelay
    /\ pulseA = 0 /\ pulseB = 0

====
